---- MODULE Spec2Model ----
(***************************************************************************)
(* Model of deer/train.py: the training loop of main(), update_step,       *)
(* loss_fn and rollout, with the warm-start cache yinit_guess that main    *)
(* threads from one update_step to the next.                               *)
(*                                                                         *)
(* Numeric blobs are abstracted as follows.                                *)
(*  - A parameter blob is the number of optimizer updates applied to it    *)
(*    (optax.apply_updates is params + updates; every update is one unit). *)
(*  - With the opaque GRUCell a trajectory is the term                     *)
(*    seq1d(func, y0, inputs, params, yinit_guess) of the solver call that *)
(*    produced it; an input sequence is the id of its dataset example.     *)
(*  - With the scalar LinearCell (s' = a*s + x) states are fixed-point     *)
(*    integers in units of 1/Scale and the solver is computed.             *)
(***************************************************************************)
EXTENDS Integers, Sequences, FiniteSets, TLC

\* ------------------------------------------------------------- bounds
MaxEpochs == 2
MaxBatches == 2
BatchSize == 2

Methods == {"deer_rnn", "deer", "sequential"}

VARIABLES
    args_method,     \* args.method                      (line 153)
    nepochs,         \* args.nepochs                     (line 150)
    nbatches,        \* batches the data source yields per epoch
    pc,              \* position of main()
    epoch,           \* loop variable of line 212
    it,              \* batches the current dataloader iterator has yielded
    i,               \* loop variable of line 213
    step,            \* line 206
    batch,           \* loop variable of line 213, after prep_batch
    combined_params, \* line 196
    opt_state,       \* line 197
    yinit_guess,     \* line 199: the warm-start cache
    y0,              \* line 200
    frame,           \* the locals of the running update_step call
    summary_writer,  \* the scalars given to add_scalar, in order
    loss,            \* line 223: the loss update_step returned
    accuracy,        \* line 223: the accuracy update_step returned
    error,           \* the exception that ended main, "" if none
    fwd,             \* history: the latest forward pass (solver calls, results)
    latest,          \* history: example id -> trajectory last produced for it
    r_pc,            \* position of the direct-call harness
    r_in,            \* arguments of the direct rollout calls
    r_out            \* what the direct call returned

train_vars == <<args_method, nepochs, nbatches, pc, epoch, it, i, step, batch,
                combined_params, opt_state, yinit_guess, y0, frame,
                summary_writer, loss, accuracy, error, fwd, latest>>
r_vars == <<r_pc, r_in, r_out>>
vars == <<args_method, nepochs, nbatches, pc, epoch, it, i, step, batch,
          combined_params, opt_state, yinit_guess, y0, frame,
          summary_writer, loss, accuracy, error, fwd, latest, r_pc, r_in, r_out>>

\* ------------------------------------------------------------- values
\* jnp.zeros((nstates,)) and jnp.zeros((nsequence, nstates)) for the opaque cell
ZeroState == [op |-> "zeros", shape |-> "nstates"]
ZeroTraj == [op |-> "zeros", shape |-> "nsequence,nstates"]

\* fixed-point unit of the LinearCell's states, and the denominator of its
\* parameter a = params / ParamDen
Scale == 2 * 2 * 2 * 2
ParamDen == 1 + 1

Abs(v) == IF v < 0 THEN -v ELSE v

MulParam(p, v) == (p * v) \div ParamDen

\* model.apply(params, carry, inputs): (new_carry, output)
model_apply(model, params, carry, inputs) ==
    IF model = "LinearCell"
    THEN <<MulParam(params, carry) + inputs, MulParam(params, carry) + inputs>>
    ELSE <<[op |-> "GRUCell", params |-> params, carry |-> carry, inputs |-> inputs],
           [op |-> "GRUCell", params |-> params, carry |-> carry, inputs |-> inputs]>>

model_func_swapped(model, carry, inputs, params) ==
    model_apply(model, params, inputs, carry)[1]

\* rollout's closure: model.apply(params, carry, inputs)[0]
model_func(model, carry, inputs, params) ==
    model_apply(model, params, carry, inputs)[1]

\* MLP.__call__: one Dense layer
mlp_apply(mlp, mlp_params, x) ==
    [op |-> "Dense", mlp |-> mlp, params |-> mlp_params, x |-> x]

\* ------------------------------------------------------------- solver
max_iter == 100
\* err < tol with tol = 1e-6, on fixed-point values
below_tol(err) == err * 1000000 < Scale

\* d func / d carry
jac_func(model, carry, inputs, params) ==
    IF model = "LinearCell" THEN params ELSE [op |-> "jacfwd", of |-> model]

\* one refinement: linearise the recurrence around the guess yk and solve
\* the linear recurrence for the whole trajectory
deer_step(model, y0v, inputs, params, yk) ==
    LET T == Len(inputs)
        prev(t) == IF t = 1 THEN y0v ELSE yk[t - 1]
        J(t) == jac_func(model, prev(t), inputs[t], params)
        rhs(t) == model_func(model, prev(t), inputs[t], params) - MulParam(J(t), prev(t))
        ynext[t \in 0..T] ==
            IF t = 0 THEN y0v ELSE MulParam(J(t), ynext[t - 1]) + rhs(t)
    IN  [t \in 1..T |-> ynext[t]]

MaxAbsDiff(a, b) ==
    LET d == {Abs(a[t] - b[t]) : t \in DOMAIN a}
    IN  IF d = {} THEN 0 ELSE CHOOSE m \in d : \A e \in d : e <= m

RECURSIVE deer_iteration(_, _, _, _, _, _)
deer_iteration(model, y0v, inputs, params, yk, iiter) ==
    LET ynext == deer_step(model, y0v, inputs, params, yk)
        err == MaxAbsDiff(ynext, yk)
    IN  IF below_tol(err) \/ iiter + 1 >= max_iter
        THEN [y |-> ynext, iters |-> iiter + 1]
        ELSE deer_iteration(model, y0v, inputs, params, ynext, iiter + 1)

\* deer.seq1d.seq1d(func, y0, xinp, params, yinit_guess)
seq1d(model, y0v, inputs, params, guess) ==
    IF model = "LinearCell"
    THEN deer_iteration(model, y0v, inputs, params, guess, 0).y
    ELSE [op |-> "seq1d", func |-> model, y0 |-> y0v, inputs |-> inputs,
          params |-> params, yinit_guess |-> guess]

\* y[-1, :]
last_entry(model, y) ==
    IF model = "LinearCell" THEN y[Len(y)]
    ELSE [op |-> "getitem", index |-> -1, of |-> y]

\* all_yinit_guess[s][0, :]
first_entry(model, y) ==
    IF model = "LinearCell" THEN y[1]
    ELSE IF y = ZeroTraj THEN ZeroState
    ELSE [op |-> "getitem", index |-> 0, of |-> y]

\* ------------------------------------------------------------- rollout
rollout_method_default == "deer_rnn"

rollout_always_solves(model, params, mlp, mlp_params, y0v, inputs, guess, method) ==
    LET y == seq1d(model, y0v, inputs, params, guess)
    IN  [raised |-> "", out |-> mlp_apply(mlp, mlp_params, last_entry(model, y)), y |-> y]

rollout(model, params, mlp, mlp_params, y0v, inputs, guess, method) ==
    IF method = "deer_rnn"
    THEN LET y == seq1d(model, y0v, inputs, params, guess)
         IN  [raised |-> "", out |-> mlp_apply(mlp, mlp_params, last_entry(model, y)), y |-> y]
    ELSE [raised |-> "NotImplementedError"]

\* ------------------------------------------------------------- loss_fn
\* what jax.vmap(rollout, in_axes=(None, None, None, None, 0, 0, 0)) hands to
\* the rollout of slot s; rollout's method is not passed and takes its default
vmap_in_y0_from_guess(model, params, mlp_params, y0v, x, guess, s) ==
    [params |-> params, mlp_params |-> mlp_params,
     y0 |-> first_entry(model, guess[s]),
     inputs |-> x[s], yinit_guess |-> guess[s], method |-> rollout_method_default]

vmap_in_y0_unmapped(model, params, mlp_params, y0v, x, guess, s) ==
    [params |-> params, mlp_params |-> mlp_params, y0 |-> y0v[1],
     inputs |-> x[s], yinit_guess |-> guess[s], method |-> rollout_method_default]

vmap_in(model, params, mlp_params, y0v, x, guess, s) ==
    [params |-> params, mlp_params |-> mlp_params, y0 |-> y0v[s],
     inputs |-> x[s], yinit_guess |-> guess[s], method |-> rollout_method_default]

\* the mapped axis sizes must agree
vmap_size_ok(y0v, x, guess) == Len(y0v) = Len(x) /\ Len(x) = Len(guess)

rollout_calls(model, params, mlp_params, y0v, x, guess) ==
    [s \in 1..Len(x) |-> vmap_in(model, params, mlp_params, y0v, x, guess, s)]

vmap_rollout(model, params, mlp, mlp_params, y0v, x, guess) ==
    LET c == rollout_calls(model, params, mlp_params, y0v, x, guess)
    IN  [s \in 1..Len(x) |->
            rollout(model, c[s].params, mlp, c[s].mlp_params, c[s].y0,
                    c[s].inputs, c[s].yinit_guess, c[s].method)]

compute_metrics(logits, labels) ==
    [loss |-> [op |-> "mean_softmax_cross_entropy", logits |-> logits, labels |-> labels],
     accuracy |-> [op |-> "mean_argmax_eq", logits |-> logits, labels |-> labels]]

loss_fn(model, params, mlp, mlp_params, y0v, b, all_yinit_guess, method) ==
    LET x == b[1]
        y == b[2]
    IN  IF ~vmap_size_ok(y0v, x, all_yinit_guess) THEN [raised |-> "ValueError"]
        ELSE LET r == vmap_rollout(model, params, mlp, mlp_params, y0v, x, all_yinit_guess)
             IN  IF \E s \in DOMAIN r : r[s].raised # ""
                 THEN [raised |-> r[CHOOSE s \in DOMAIN r : r[s].raised # ""].raised]
                 ELSE LET m == compute_metrics([s \in DOMAIN r |-> r[s].out], y)
                      IN  [raised |-> "", loss |-> m.loss, accuracy |-> m.accuracy,
                           yinit_guess |-> [s \in DOMAIN r |-> r[s].y]]

\* jax.value_and_grad(loss_fn, argnums=(1, 3), has_aux=True)
grad_of(l) ==
    [params |-> [op |-> "grad", argnum |-> 1, of |-> l],
     mlp_params |-> [op |-> "grad", argnum |-> 3, of |-> l]]

\* ------------------------------------------------------------- optimizer
\* optimizer.init(combined_params)
optimizer_init(params) == [count |-> 0]

\* optimizer.update(grads, opt_state): (updates, opt_state)
optimizer_update(grads, state) ==
    [updates |-> [k \in DOMAIN grads |-> 1], opt_state |-> [count |-> state.count + 1]]

apply_updates_params_only(params, updates) ==
    [k \in DOMAIN params |-> IF k = "params" THEN params[k] + updates[k] ELSE params[k]]

\* optax.apply_updates(params, updates): params + updates, leaf by leaf
apply_updates(params, updates) ==
    [k \in DOMAIN params |-> params[k] + updates[k]]

\* ------------------------------------------------------------- data source
Examples == 1..(MaxBatches * BatchSize)

\* batch b of an epoch: the examples b*BatchSize+1 .. (b+1)*BatchSize, with
\* their labels, the same in every epoch
DataSource(b) ==
    <<[s \in 1..BatchSize |-> b * BatchSize + s],
      [s \in 1..BatchSize |-> (b * BatchSize + s) % 2]>>

\* prep_batch: a pair of tensors to a pair of arrays of the same values
prep_batch(b) == <<b[1], b[2]>>

\* ------------------------------------------------------------- main
NoFrame == [active |-> FALSE]
NoBatch == <<>>
NoPass == [n |-> 0]
ZerosGuess == [s \in 1..BatchSize |-> ZeroTraj]
ZerosY0 == [s \in 1..BatchSize |-> ZeroState]

RIdle == r_pc = "off" /\ r_in = [kind |-> "none"] /\ r_out = [kind |-> "none"]

\* lines 147-206: the state when the training loop is entered
TrainInit ==
    /\ args_method \in Methods
    /\ nepochs \in 0..MaxEpochs
    /\ nbatches \in 0..MaxBatches
    /\ pc = "for_epoch"
    /\ epoch = 0
    /\ it = 0
    /\ i = 0
    /\ step = 0
    /\ batch = NoBatch
    /\ combined_params = [params |-> 0, mlp_params |-> 0]
    /\ opt_state = optimizer_init(combined_params)
    /\ yinit_guess = ZerosGuess
    /\ y0 = ZerosY0
    /\ frame = NoFrame
    /\ summary_writer = <<>>
    /\ loss = "unbound"
    /\ accuracy = "unbound"
    /\ error = ""
    /\ fwd = NoPass
    /\ latest = [e \in Examples |-> ZeroTraj]

Init == TrainInit /\ RIdle

\* line 212: for epoch in range(args.nepochs)
ForEpoch ==
    /\ pc = "for_epoch"
    /\ IF epoch < nepochs
       THEN pc' = "for_batch" /\ it' = 0
       ELSE pc' = "done" /\ it' = it
    /\ UNCHANGED <<args_method, nepochs, nbatches, epoch, i, step, batch,
                   combined_params, opt_state, yinit_guess, y0, frame,
                   summary_writer, error, fwd, latest>>
    /\ UNCHANGED <<loss, accuracy>>
    /\ UNCHANGED r_vars

\* lines 213-215: the next batch of the dataloader, or its end, or its failure
ForBatch ==
    /\ pc = "for_batch"
    /\ \/ /\ it < nbatches
          /\ i' = it
          /\ it' = it + 1
          /\ batch' = prep_batch(DataSource(it))
          /\ pc' = "call_update_step"
          /\ UNCHANGED <<epoch, error>>
       \/ /\ it >= nbatches
          /\ epoch' = epoch + 1
          /\ pc' = "for_epoch"
          /\ UNCHANGED <<i, it, batch, error>>
       \/ /\ it < nbatches
          /\ pc' = "raised"
          /\ error' = "DataSourceError"
          /\ UNCHANGED <<epoch, i, it, batch>>
    /\ UNCHANGED <<args_method, nepochs, nbatches, step, combined_params,
                   opt_state, yinit_guess, y0, frame, summary_writer, fwd, latest>>
    /\ UNCHANGED <<loss, accuracy>>
    /\ UNCHANGED r_vars

update_step_method_default == "deer_rnn"

\* the frame of update_step(model, mlp, optimizer, combined_params, opt_state,
\* batch, y0, yinit_guess): main passes no method
update_step_frame_method_from_args(method_arg) ==
    [active |-> TRUE, method |-> method_arg,
     combined_params |-> combined_params, opt_state |-> opt_state,
     batch |-> batch, y0 |-> y0, all_yinit_guess |-> yinit_guess]

update_step_frame(method_arg) ==
    [active |-> TRUE, method |-> update_step_method_default,
     combined_params |-> combined_params, opt_state |-> opt_state,
     batch |-> batch, y0 |-> y0, all_yinit_guess |-> yinit_guess]

\* lines 223-227: the call binds update_step's parameters
CallUpdateStep ==
    /\ pc = "call_update_step"
    /\ frame' = update_step_frame(args_method)
    /\ pc' = "value_and_grad"
    /\ UNCHANGED <<args_method, nepochs, nbatches, epoch, it, i, step, batch,
                   combined_params, opt_state, yinit_guess, y0,
                   summary_writer, error, fwd, latest>>
    /\ UNCHANGED <<loss, accuracy>>
    /\ UNCHANGED r_vars

\* lines 125-129: the forward pass and its gradient, or their failure
ValueAndGrad ==
    /\ pc = "value_and_grad"
    /\ LET r == loss_fn("GRUCell", frame.combined_params.params, "MLP",
                        frame.combined_params.mlp_params, frame.y0, frame.batch,
                        frame.all_yinit_guess, frame.method)
           c == rollout_calls("GRUCell", frame.combined_params.params,
                              frame.combined_params.mlp_params, frame.y0,
                              frame.batch[1], frame.all_yinit_guess)
       IN  \/ /\ r.raised = ""
              /\ frame' = [active |-> TRUE, method |-> frame.method,
                           combined_params |-> frame.combined_params,
                           opt_state |-> frame.opt_state,
                           loss |-> r.loss, accuracy |-> r.accuracy,
                           yinit_guess |-> r.yinit_guess, grad |-> grad_of(r.loss)]
              /\ fwd' = [n |-> fwd.n + 1, calls |-> c, y |-> r.yinit_guess]
              /\ latest' = [e \in Examples |->
                              IF \E s \in DOMAIN c : c[s].inputs = e
                              THEN r.yinit_guess[CHOOSE s \in DOMAIN c : c[s].inputs = e]
                              ELSE latest[e]]
              /\ pc' = "optimizer_update"
              /\ error' = error
           \/ /\ pc' = "raised"
              /\ error' = (IF r.raised = "" THEN "ForwardError" ELSE r.raised)
              /\ UNCHANGED <<frame, fwd, latest>>
    /\ UNCHANGED <<args_method, nepochs, nbatches, epoch, it, i, step, batch,
                   combined_params, opt_state, yinit_guess, y0, summary_writer>>
    /\ UNCHANGED <<loss, accuracy>>
    /\ UNCHANGED r_vars

OptimizerUpdate_in_place ==
    /\ pc = "optimizer_update"
    /\ \/ /\ LET u == optimizer_update(frame.grad, frame.opt_state)
             IN  /\ frame' = [active |-> TRUE, method |-> frame.method,
                              combined_params |-> frame.combined_params,
                              opt_state |-> u.opt_state, updates |-> u.updates,
                              grad |-> frame.grad,
                              loss |-> frame.loss, accuracy |-> frame.accuracy,
                              yinit_guess |-> frame.yinit_guess]
                 /\ opt_state' = u.opt_state
          /\ pc' = "apply_updates"
          /\ error' = error
       \/ /\ pc' = "raised"
          /\ error' = "OptimizerError"
          /\ frame' = frame
          /\ opt_state' = opt_state
    /\ UNCHANGED <<args_method, nepochs, nbatches, epoch, it, i, step, batch,
                   combined_params, yinit_guess, y0, summary_writer,
                   fwd, latest>>
    /\ UNCHANGED <<loss, accuracy>>
    /\ UNCHANGED r_vars

\* line 130: updates, opt_state = optimizer.update(grads, opt_state)
OptimizerUpdate ==
    /\ pc = "optimizer_update"
    /\ \/ /\ LET u == optimizer_update(frame.grad, frame.opt_state)
             IN  frame' = [active |-> TRUE, method |-> frame.method,
                           combined_params |-> frame.combined_params,
                           opt_state |-> u.opt_state, updates |-> u.updates,
                           grad |-> frame.grad,
                           loss |-> frame.loss, accuracy |-> frame.accuracy,
                           yinit_guess |-> frame.yinit_guess]
          /\ pc' = "apply_updates"
          /\ error' = error
       \/ /\ pc' = "raised"
          /\ error' = "OptimizerError"
          /\ frame' = frame
    /\ UNCHANGED <<args_method, nepochs, nbatches, epoch, it, i, step, batch,
                   combined_params, opt_state, yinit_guess, y0, summary_writer,
                   fwd, latest>>
    /\ UNCHANGED <<loss, accuracy>>
    /\ UNCHANGED r_vars

\* line 131: combined_params = optax.apply_updates(combined_params, updates)
ApplyUpdates ==
    /\ pc = "apply_updates"
    /\ frame' = [frame EXCEPT !.combined_params =
                     apply_updates(frame.combined_params, frame.updates)]
    /\ pc' = "return"
    /\ UNCHANGED <<args_method, nepochs, nbatches, epoch, it, i, step, batch,
                   combined_params, opt_state, yinit_guess, y0, summary_writer,
                   error, fwd, latest>>
    /\ UNCHANGED <<loss, accuracy>>
    /\ UNCHANGED r_vars

\* lines 132 and 223: update_step returns and main rebinds its five names
Return_keeps_guess ==
    /\ pc = "return"
    /\ combined_params' = frame.combined_params
    /\ opt_state' = frame.opt_state
    /\ loss' = frame.loss
    /\ accuracy' = frame.accuracy
    /\ yinit_guess' = yinit_guess
    /\ frame' = NoFrame
    /\ pc' = "add_scalar"
    /\ UNCHANGED <<args_method, nepochs, nbatches, epoch, it, i, step, batch,
                   y0, summary_writer, error, fwd, latest>>
    /\ UNCHANGED r_vars

Return ==
    /\ pc = "return"
    /\ combined_params' = frame.combined_params
    /\ opt_state' = frame.opt_state
    /\ loss' = frame.loss
    /\ accuracy' = frame.accuracy
    /\ yinit_guess' = frame.yinit_guess
    /\ frame' = NoFrame
    /\ pc' = "add_scalar"
    /\ UNCHANGED <<args_method, nepochs, nbatches, epoch, it, i, step, batch,
                   y0, summary_writer, error, fwd, latest>>
    /\ UNCHANGED r_vars

\* line 228: summary_writer.add_scalar("train_loss", loss, step)
AddScalar ==
    /\ pc = "add_scalar"
    /\ summary_writer' = Append(summary_writer, <<"train_loss", loss, step>>)
    /\ pc' = "incr_step"
    /\ UNCHANGED <<args_method, nepochs, nbatches, epoch, it, i, step, batch,
                   combined_params, opt_state, yinit_guess, y0, frame,
                   loss, accuracy, error, fwd, latest>>
    /\ UNCHANGED r_vars

IncrStep_resets_per_epoch ==
    /\ pc = "incr_step"
    /\ step' = (IF it >= nbatches THEN 0 ELSE step + 1)
    /\ pc' = "for_batch"
    /\ UNCHANGED <<args_method, nepochs, nbatches, epoch, it, i, batch,
                   combined_params, opt_state, yinit_guess, y0, frame,
                   summary_writer, loss, accuracy, error, fwd, latest>>
    /\ UNCHANGED r_vars

\* line 229: step += 1, and back to the head of the inner loop
IncrStep ==
    /\ pc = "incr_step"
    /\ step' = step + 1
    /\ pc' = "for_batch"
    /\ UNCHANGED <<args_method, nepochs, nbatches, epoch, it, i, batch,
                   combined_params, opt_state, yinit_guess, y0, frame,
                   summary_writer, loss, accuracy, error, fwd, latest>>
    /\ UNCHANGED r_vars

Next ==
    \/ ForEpoch
    \/ ForBatch
    \/ CallUpdateStep
    \/ ValueAndGrad
    \/ OptimizerUpdate
    \/ ApplyUpdates
    \/ Return
    \/ AddScalar
    \/ IncrStep

Spec == Init /\ [][Next]_vars

\* main is one sequential thread: it takes its next step whenever it has one
FairSpec == Init /\ [][Next]_vars /\ WF_vars(Next)

\* ------------------------------------------------------------- direct calls
\* rollout and the batched rollout of loss_fn called directly, on the scalar
\* LinearCell s' = (params / ParamDen) * s + x
MaxGuess == 1

ScenarioInputs == <<Scale, Scale, Scale, Scale>>
OtherInputs == <<Scale, 0, 2 * Scale, Scale>>

\* the position-by-position evaluation of the recurrence
Sequential(model, y0v, inputs, params) ==
    LET yseq[t \in 0..Len(inputs)] ==
            IF t = 0 THEN y0v ELSE model_func(model, yseq[t - 1], inputs[t], params)
    IN  [t \in 1..Len(inputs) |-> yseq[t]]

GuessFamily ==
    {[t \in 1..4 |-> c * Scale - c * t] : c \in {0, 3}}

ExampleArgs ==
    [y0 : {0, Scale}, inputs : {ScenarioInputs, OtherInputs}, yinit_guess : GuessFamily]

TrainOff ==
    /\ args_method = "deer"
    /\ nepochs = 0
    /\ nbatches = 0
    /\ pc = "off"
    /\ epoch = 0
    /\ it = 0
    /\ i = 0
    /\ step = 0
    /\ batch = NoBatch
    /\ combined_params = [params |-> 0, mlp_params |-> 0]
    /\ opt_state = optimizer_init(combined_params)
    /\ yinit_guess = ZerosGuess
    /\ y0 = ZerosY0
    /\ frame = NoFrame
    /\ summary_writer = <<>>
    /\ loss = "unbound"
    /\ accuracy = "unbound"
    /\ error = ""
    /\ fwd = NoPass
    /\ latest = [e \in Examples |-> ZeroTraj]

RolloutInit ==
    /\ TrainOff
    /\ r_pc = "ready"
    /\ r_out = [kind |-> "none"]
    /\ \E m \in Methods, p \in 0..ParamDen, a \in [1..BatchSize -> ExampleArgs] :
          r_in = [method |-> m, params |-> p, mlp_params |-> 0,
                  y0 |-> [s \in 1..BatchSize |-> a[s].y0],
                  x |-> [s \in 1..BatchSize |-> a[s].inputs],
                  yinit_guess |-> [s \in 1..BatchSize |-> a[s].yinit_guess]]

\* the scenario of one example: s' = 0.5*s + x, inputs [1,1,1,1], initial
\* state 0, any initial guess
GuessVals == {g * (Scale \div 2) : g \in (-MaxGuess)..MaxGuess}

ScenarioInit ==
    /\ TrainOff
    /\ r_pc = "ready"
    /\ r_out = [kind |-> "none"]
    /\ \E g \in [1..4 -> GuessVals] \cup {Sequential("LinearCell", 0, ScenarioInputs, 1)} :
          r_in = [method |-> "deer_rnn", params |-> 1, mlp_params |-> 0,
                  y0 |-> <<0>>, x |-> <<ScenarioInputs>>, yinit_guess |-> <<g>>]

\* rollout(model, params, mlp, mlp_params, y0, inputs, yinit_guess, method)
\* on the arguments of slot s
CallRollout ==
    /\ r_pc = "ready"
    /\ \E s \in 1..Len(r_in.x) :
          r_out' = [kind |-> "single", slot |-> s,
                    res |-> rollout("LinearCell", r_in.params, "MLP", r_in.mlp_params,
                                    r_in.y0[s], r_in.x[s], r_in.yinit_guess[s],
                                    r_in.method)]
    /\ r_pc' = "returned"
    /\ r_in' = r_in
    /\ UNCHANGED train_vars

\* the vmap of loss_fn (lines 104-106) on the whole batch
CallVmapRollout ==
    /\ r_pc = "ready"
    /\ r_out' = [kind |-> "batched",
                 res |-> vmap_rollout("LinearCell", r_in.params, "MLP", r_in.mlp_params,
                                      r_in.y0, r_in.x, r_in.yinit_guess)]
    /\ r_pc' = "returned"
    /\ r_in' = r_in
    /\ UNCHANGED train_vars

RolloutNext ==
    \/ CallRollout
    \/ CallVmapRollout

SpecRollout == RolloutInit /\ [][RolloutNext]_vars

SpecScenario == ScenarioInit /\ [][RolloutNext]_vars

\* ------------------------------------------------------------- properties
GuessesOf(p) == [s \in DOMAIN p.calls |-> p.calls[s].yinit_guess]

\* C1: the guess the solver gets in step k+1 is exactly what the forward pass
\* of step k returned, computed with the parameters not yet updated by step
\* k; the cache is zeros before the first step and changes only by being
\* replaced whole with the trajectories of the latest forward pass.
C1_GuessIsPreviousPass ==
    /\ yinit_guess = ZerosGuess
    /\ [][fwd'.n # fwd.n =>
            /\ GuessesOf(fwd') = (IF fwd.n = 0 THEN ZerosGuess ELSE fwd.y)
            /\ \A s \in DOMAIN fwd'.calls :
                  /\ fwd'.calls[s].params = combined_params.params
                  /\ fwd'.y[s].params = combined_params.params
                  /\ fwd'.y[s].yinit_guess = fwd'.calls[s].yinit_guess]_vars
    /\ [][yinit_guess' # yinit_guess =>
            /\ yinit_guess' = fwd.y
            /\ Len(yinit_guess') = Len(yinit_guess)]_vars

C1_Witness ==
    /\ fwd.n = 2
    /\ pc = "optimizer_update"
    /\ \A s \in DOMAIN fwd.calls :
          /\ fwd.calls[s].yinit_guess # ZeroTraj
          /\ fwd.calls[s].yinit_guess.params = 0
          /\ fwd.calls[s].params = 1

\* C2: whenever an example is solved, the guess it receives is the trajectory
\* most recently produced for that same example, or zeros if it was never
\* solved.
C2_GuessIsOwnLatestTrajectory ==
    [][fwd'.n # fwd.n =>
         \A s \in DOMAIN fwd'.calls :
            fwd'.calls[s].yinit_guess = latest[fwd'.calls[s].inputs]]_vars

\* C3: the parameters (cell and readout together) are written exactly once
\* per step, by main's rebinding at the return of update_step, after the
\* forward pass over every example of the batch ran on the pre-update
\* parameters; all solver calls of one pass see the same parameters.
C3_ParamsWrittenOncePerStep ==
    /\ [](fwd.n > 0 =>
            \A s, t \in DOMAIN fwd.calls :
               /\ fwd.calls[s].params = fwd.calls[t].params
               /\ fwd.calls[s].mlp_params = fwd.calls[t].mlp_params)
    /\ [](/\ combined_params.params = combined_params.mlp_params
          /\ combined_params.params =
                (IF pc \in {"add_scalar", "incr_step"} THEN step + 1 ELSE step))
    /\ [][combined_params' # combined_params =>
            /\ pc = "return"
            /\ fwd.n = step + 1
            /\ Len(fwd.calls) = BatchSize
            /\ \A s \in DOMAIN fwd.calls :
                  /\ fwd.calls[s].params = combined_params.params
                  /\ fwd.calls[s].mlp_params = combined_params.mlp_params
            /\ frame.grad = grad_of(frame.loss)
            /\ Len(frame.loss.logits) = BatchSize
            /\ \A s \in DOMAIN frame.loss.logits :
                  /\ frame.loss.logits[s].params = combined_params.mlp_params
                  /\ frame.loss.logits[s].x.of = fwd.y[s]
                  /\ fwd.y[s].params = combined_params.params
            /\ combined_params' =
                  [k \in DOMAIN combined_params |-> combined_params[k] + 1]]_vars

C3_Witness ==
    /\ pc = "add_scalar"
    /\ step = 1
    /\ combined_params = [params |-> 2, mlp_params |-> 2]

\* the number of steps whose result a cached trajectory reflects
Generation(y) == IF y = ZeroTraj THEN 0 ELSE y.params + 1

\* C5: a step is all-or-nothing: in every state, also after the data source,
\* the forward pass or the optimizer failed, the parameters, the optimizer
\* state and every cache entry reflect the same number of steps, and after a
\* failure that number is the number of steps completed before it.
C5_StepIsAllOrNothing ==
    /\ combined_params.params = opt_state.count
    /\ combined_params.mlp_params = opt_state.count
    /\ \A s \in DOMAIN yinit_guess : Generation(yinit_guess[s]) = opt_state.count
    /\ (pc = "raised" => opt_state.count = step)

C5_Witness ==
    /\ pc = "raised"
    /\ error = "OptimizerError"
    /\ step = 1
    /\ frame.yinit_guess # yinit_guess

\* C8: y0 is never modified and every solver call of every step gets the
\* all-zero initial state, whatever the cache holds.
C8_InitialStateAlwaysZero ==
    /\ y0 = ZerosY0
    /\ (pc = "value_and_grad" => frame.y0 = ZerosY0)
    /\ (fwd.n > 0 => \A s \in DOMAIN fwd.calls : fwd.calls[s].y0 = ZeroState)

C8_Witness ==
    /\ fwd.n = 2
    /\ \A s \in DOMAIN fwd.calls :
          /\ fwd.calls[s].yinit_guess # ZeroTraj
          /\ fwd.calls[s].y0 = ZeroState

\* C9: the loop runs one step per batch, in data-source order, for every
\* epoch: it emits one train_loss per step with indices 0, 1, 2, ... that are
\* not reset between epochs, ends after exactly nepochs*nbatches steps, and
\* ends (or an exception ends it).
C9_LoopRunsEveryBatchOnce ==
    /\ [](\A k \in 1..Len(summary_writer) :
             /\ summary_writer[k][1] = "train_loss"
             /\ summary_writer[k][3] = k - 1
             /\ summary_writer[k][2].labels = DataSource((k - 1) % nbatches)[2])
    /\ [](Len(summary_writer) = (IF pc = "incr_step" THEN step + 1 ELSE step))
    /\ [](pc = "done" => step = nepochs * nbatches /\ epoch = nepochs)
    /\ <>(pc \in {"done", "raised"})

C9_Witness ==
    /\ pc = "done"
    /\ nepochs = 2
    /\ nbatches = 2
    /\ step = 4
    /\ Len(summary_writer) = 4

\* C10: whatever --method is, update_step runs with "deer_rnn", every rollout
\* gets "deer_rnn", and the loop never ends in NotImplementedError.
C10_MethodNeverReachesRollout ==
    /\ error # "NotImplementedError"
    /\ (frame.active => frame.method = "deer_rnn")
    /\ (fwd.n > 0 => \A s \in DOMAIN fwd.calls : fwd.calls[s].method = "deer_rnn")

C10_Witness ==
    /\ args_method = "sequential"
    /\ pc = "done"
    /\ step > 0
    /\ fwd.calls[1].method = "deer_rnn"

\* C4: the batched rollout gives, slot by slot, what rollout gives on that
\* slot's own initial state, inputs and guess with the shared parameters.
C4_BatchedEqualsSingle ==
    r_out.kind = "batched" =>
        /\ Len(r_out.res) = Len(r_in.x)
        /\ \A s \in 1..Len(r_in.x) :
              r_out.res[s] = rollout("LinearCell", r_in.params, "MLP", r_in.mlp_params,
                                     r_in.y0[s], r_in.x[s], r_in.yinit_guess[s],
                                     "deer_rnn")

C4_Witness ==
    /\ r_out.kind = "batched"
    /\ r_in.params = 1
    /\ r_in.y0[1] # r_in.y0[2]
    /\ r_in.x[1] # r_in.x[2]
    /\ r_in.yinit_guess[1] # r_in.yinit_guess[2]
    /\ r_out.res[1].y # r_out.res[2].y

\* C7: with method "deer_rnn" rollout returns the readout of the last entry
\* of the solver's trajectory, and that trajectory; with any other method it
\* raises NotImplementedError and returns neither.
C7_OnlyDeerRnnImplemented ==
    r_out.kind = "single" =>
        IF r_in.method = "deer_rnn"
        THEN /\ DOMAIN r_out.res = {"raised", "out", "y"}
             /\ r_out.res.raised = ""
             /\ r_out.res.y = seq1d("LinearCell", r_in.y0[r_out.slot], r_in.x[r_out.slot],
                                    r_in.params, r_in.yinit_guess[r_out.slot])
             /\ r_out.res.out = mlp_apply("MLP", r_in.mlp_params,
                                          r_out.res.y[Len(r_out.res.y)])
        ELSE r_out.res = [raised |-> "NotImplementedError"]

C7_Witness ==
    /\ r_out.kind = "single"
    /\ r_in.method = "sequential"
    /\ r_out.res.raised = "NotImplementedError"

WithinTol(y, expected) ==
    /\ Len(y) = Len(expected)
    /\ \A t \in DOMAIN expected : Abs(y[t] - expected[t]) * 1000000 <= Scale

ScenarioIters ==
    deer_iteration("LinearCell", r_in.y0[1], r_in.x[1], r_in.params,
                   r_in.yinit_guess[1], 0).iters

\* C6 as stated: from any guess the solver returns [0.5, 0.75, 0.875, 0.9375]
\* within 1e-6, in fewer than 10 iterations.
C6_ReturnsHalvedTrajectory ==
    r_out.kind = "single" =>
        /\ WithinTol(r_out.res.y,
                     <<Scale \div 2, (3 * Scale) \div 4, (7 * Scale) \div 8,
                       (15 * Scale) \div 16>>)
        /\ ScenarioIters < 10

\* C6 amended: from any guess the solver returns the sequential evaluation of
\* s' = 0.5*s + x, which is [1, 1.5, 1.75, 1.875], within 1e-6, in fewer than
\* 10 iterations.
C6_ReturnsSequentialTrajectory ==
    r_out.kind = "single" =>
        /\ WithinTol(r_out.res.y, Sequential("LinearCell", 0, ScenarioInputs, 1))
        /\ WithinTol(r_out.res.y,
                     <<Scale, (3 * Scale) \div 2, (7 * Scale) \div 4,
                       (15 * Scale) \div 8>>)
        /\ ScenarioIters < 10

C6_Witness ==
    /\ r_out.kind = "single"
    /\ r_in.yinit_guess[1] = [t \in 1..4 |-> -(Scale \div 2)]
    /\ r_out.res.y = <<Scale, (3 * Scale) \div 2, (7 * Scale) \div 4, (15 * Scale) \div 8>>
    /\ ScenarioIters = 2
====
